---------------------------- MODULE Spec2Model ----------------------------
(***************************************************************************)
(* Guardian Route: tile/edge overlay, risk weighting and route planning.   *)
(*                                                                         *)
(* Floating point numbers of the program are modelled as exact rationals   *)
(* <<numerator, denominator>> in lowest terms with a positive denominator. *)
(* A networkx MultiDiGraph is a function from edge identifiers <<u,v,key>> *)
(* to attribute records; graph objects live in a heap so that aliasing and *)
(* copying (G.copy()) are visible.                                         *)
(***************************************************************************)
EXTENDS Integers, Sequences, FiniteSets, TLC

VARIABLES
    heap,               \* graph objects: heap[0] is the cached Network, heap[r] request r's copy
    edge_geom,          \* edge geometry against the tiles (input of the overlay mapper)
    tile_edge_mapping,  \* the Overlay Map (edge id -> contributions)
    pc,                 \* pc[0]: the overlay script; pc[r]: route request r in main()
    origin_point,       \* (lat, lon) of each request's origin
    dest_point,         \* (lat, lon) of each request's destination
    tile_risks,         \* each request's RiskMap
    G_risk,             \* each request's reference to its weighted graph
    safe_route,         \* result of find_safe_route(..., weight='risk_weight')
    fast_route,         \* result of find_safe_route(..., weight='length')
    safe_metrics,       \* calculate_route_metrics of the safe route
    fast_metrics,       \* calculate_route_metrics of the fast route
    reduction,          \* calculate_risk_reduction(safe_metrics, fast_metrics)
    model,              \* the predictor object handed to predict_next_4_hours
    reference_time,     \* each call's reference instant, in ticks
    prediction_hours,   \* each call's list of hourly instants (the argument of model.predict)
    method,             \* each call's aggregation method (aggregate_tile_predictions)
    bbox,               \* each invocation's bounding box (create_spatial_grid)
    tile_size_m,        \* each invocation's tile size
    grid,               \* each invocation's returned grid
    empty_frame_raises  \* whether the installed geopandas rejects a frame without rows

results == <<safe_metrics, fast_metrics, reduction>>
prediction == <<model, reference_time, prediction_hours, method>>
tiling == <<bbox, tile_size_m, grid, empty_frame_raises>>

vars == <<heap, edge_geom, tile_edge_mapping, pc, origin_point, dest_point,
          tile_risks, G_risk, safe_route, fast_route, results, prediction, tiling>>

(***************************************************************************)
(* Bounds of the model.                                                    *)
(***************************************************************************)
NumNodes == 3       \* nodes 1..NumNodes
MaxLen == 2         \* 'length' attribute of an edge, 0..MaxLen
MaxSeg == 1         \* length of an edge's intersection with one tile, 0..MaxSeg
RiskDen == 2        \* tile risks are k/RiskDen, k in 0..RiskDen
MaxRoute == 3       \* node lists handed to calculate_route_metrics have 0..MaxRoute nodes
TicksPerHour == 2   \* resolution of time: a clock hour has TicksPerHour instants
MaxCoord == 2       \* bounding box coordinates are 0..MaxCoord degrees
MaxTile == 2        \* tile sizes are -1..MaxTile metres
MetersPerDegree == 2 \* scale of the projection between degrees and metres

(***************************************************************************)
(* Exact rational arithmetic.                                              *)
(***************************************************************************)
Abs(x) == IF x < 0 THEN -x ELSE x

RECURSIVE GCD(_, _)
GCD(a, b) == IF b = 0 THEN a ELSE GCD(b, a % b)

RNorm(n, d) ==
    LET g == GCD(Abs(n), Abs(d))
        s == IF d < 0 THEN -1 ELSE 1
    IN  <<(s * n) \div g, (s * d) \div g>>

RInt(k) == <<k, 1>>
RZero == RInt(0)
ROne == RInt(1)
RAdd(p, q) == RNorm(p[1] * q[2] + q[1] * p[2], p[2] * q[2])
RSub(p, q) == RNorm(p[1] * q[2] - q[1] * p[2], p[2] * q[2])
RMul(p, q) == RNorm(p[1] * q[1], p[2] * q[2])
RDiv(p, q) == RNorm(p[1] * q[2], p[2] * q[1])     \* q # 0
RLt(p, q) == p[1] * q[2] < q[1] * p[2]
RLe(p, q) == p[1] * q[2] <= q[1] * p[2]

RECURSIVE RSum(_)
RSum(s) == IF s = <<>> THEN RZero ELSE RAdd(Head(s), RSum(Tail(s)))

(***************************************************************************)
(* The data: nodes, edges, tiles.                                          *)
(***************************************************************************)
Nodes == 1..NumNodes
Requests == {1, 2}
NoAttr == <<>>              \* an edge attribute that is not set
NoGeom == <<>>              \* geometry is not read at request time
NoRisks == <<>>             \* a RiskMap that is not computed yet
NoRef == 0 - 1                 \* no graph object

\* What find_safe_route returns: None or a list of nodes.
NotYet == [tag |-> "unset", nodes |-> <<>>]
None == [tag |-> "None", nodes |-> <<>>]
Route(p) == [tag |-> "list", nodes |-> p]

\* The tiles of the grid, in the order of tiles_gdf.
TileIds == <<"tile_0_0", "tile_1_0">>
Tiles == {TileIds[i] : i \in 1..Len(TileIds)}

\* The edge identifiers (u, v, key) a network may hold: two parallel edges
\* 1 -> 2, a chord 1 -> 3, and a way back 3 -> 1.
EdgeUniverse == {<<1, 2, 0>>, <<1, 2, 1>>, <<2, 3, 0>>, <<1, 3, 0>>, <<3, 1, 0>>}

EdgeAttrs(len) == [length |-> len, travel_time |-> len + 1,
                   risk |-> NoAttr, risk_weight |-> NoAttr]

\* Unweighted networks over a set of edge identifiers.
NetworksOver(E) == {[e \in E |-> EdgeAttrs(len[e])] : len \in [E -> 0..MaxLen]}

(***************************************************************************)
(* Overlay Mapper: 06_prepare_network.py create_tile_edge_mapping.         *)
(*                                                                         *)
(* The geometry of an edge is abstracted to what the mapper measures:      *)
(*   inter[t]  length of the edge's intersection with tile t (0: disjoint  *)
(*             or touching in a point: no positive-length intersection),   *)
(*   outside   length of the part of the edge outside every tile,          *)
(*   raises    tiles for which edge_geom.intersection(tile) raises.        *)
(* The tiles of a grid have disjoint interiors, so the geometric length is *)
(* the sum of the parts.                                                   *)
(***************************************************************************)
RECURSIVE SumOver(_, _)
SumOver(f, S) ==
    IF S = {} THEN 0
    ELSE LET x == CHOOSE y \in S : TRUE IN f[x] + SumOver(f, S \ {x})

GeomLength(g) == SumOver(g.inter, Tiles) + g.outside

EdgeGeoms ==
    {g \in [inter : [Tiles -> 0..MaxSeg], outside : 0..MaxSeg, raises : SUBSET Tiles] :
        \A t \in g.raises : g.inter[t] > 0}

\* Lines 135-163: the contributions of one edge before normalisation, in tile order.
RECURSIVE RawContributions(_, _, _)
RawContributions(g, edge_length, i) ==
    IF i > Len(TileIds) THEN <<>>
    ELSE LET t == TileIds[i]
             rest == RawContributions(g, edge_length, i + 1)
         IN  IF g.inter[t] = 0 THEN rest                 \* no intersection, or empty
             ELSE IF t \in g.raises THEN rest             \* except: continue
             ELSE <<[tile_id |-> t, fraction |-> RNorm(g.inter[t], edge_length)]>> \o rest

Fractions(tcs) == [i \in 1..Len(tcs) |-> tcs[i].fraction]

\* Variant: the fractions are stored as measured, without normalisation.
NormalizeSkipped(tcs) == tcs

\* Lines 165-170: normalise the fractions to sum to 1.0.
NormalizeContributions(tcs) ==
    LET total_fraction == RSum(Fractions(tcs))
    IN  IF RLt(RZero, total_fraction)
        THEN [i \in 1..Len(tcs) |->
                 [tile_id |-> tcs[i].tile_id,
                  fraction |-> RDiv(tcs[i].fraction, total_fraction)]]
        ELSE tcs

\* Variant: every edge gets an entry, whatever its length and contributions.
MappedEdgesAll(geom) == DOMAIN geom

\* Lines 123-172: the edges that get an entry.
MappedEdges(geom) ==
    {e \in DOMAIN geom :
        /\ GeomLength(geom[e]) # 0
        /\ RawContributions(geom[e], GeomLength(geom[e]), 1) # <<>>}

create_tile_edge_mapping(geom) ==
    [e \in MappedEdges(geom) |->
        NormalizeContributions(RawContributions(geom[e], GeomLength(geom[e]), 1))]

(***************************************************************************)
(* Graph Weighter: routing.py apply_risk_weights.                          *)
(***************************************************************************)
\* Variant: a tile missing from the RiskMap counts as risk 1.0.
TileRiskDefaultOne(risks, tile_id) == IF tile_id \in DOMAIN risks THEN risks[tile_id] ELSE ROne

\* Line 52: tile_risks.get(tile_id, 0.0)
TileRisk(risks, tile_id) == IF tile_id \in DOMAIN risks THEN risks[tile_id] ELSE RZero

\* Lines 48-53: the loop over the edge's contributions.
RECURSIVE AccumulateRisk(_, _, _)
AccumulateRisk(tcs, risks, i) ==
    IF i > Len(tcs) THEN RZero
    ELSE RAdd(RMul(TileRisk(risks, tcs[i].tile_id), tcs[i].fraction),
              AccumulateRisk(tcs, risks, i + 1))

\* Lines 44-58.
EdgeRisk(mapping, risks, edge_id) ==
    IF edge_id \in DOMAIN mapping
    THEN AccumulateRisk(mapping[edge_id], risks, 1)
    ELSE RZero

\* Variant: the risk is subtracted, a bonus instead of a penalty.
RiskWeightBonus(edge_length, edge_risk) == RMul(RInt(edge_length), RSub(ROne, edge_risk))

\* Variant: the "1 +" is left out.
RiskWeightRiskOnly(edge_length, edge_risk) == RMul(RInt(edge_length), edge_risk)

\* Variant: the risk is added to the length instead of scaling it.
RiskWeightAdditive(edge_length, edge_risk) == RAdd(RInt(edge_length), edge_risk)

\* Line 61: risk_weight = edge_length * (1 + edge_risk)
RiskWeight(edge_length, edge_risk) == RMul(RInt(edge_length), RAdd(ROne, edge_risk))

\* Variant: only the edges present in the Overlay Map get the two attributes.
apply_risk_weights_MappedOnly(graph, mapping, risks) ==
    [e \in DOMAIN graph |->
        IF e \in DOMAIN mapping
        THEN [graph[e] EXCEPT
                 !.risk = EdgeRisk(mapping, risks, e),
                 !.risk_weight = RiskWeight(graph[e].length, EdgeRisk(mapping, risks, e))]
        ELSE graph[e]]

\* Lines 39-67: the graph after the loop; the loop writes into the graph it is given.
apply_risk_weights(graph, mapping, risks) ==
    [e \in DOMAIN graph |->
        [graph[e] EXCEPT
            !.risk = EdgeRisk(mapping, risks, e),
            !.risk_weight = RiskWeight(graph[e].length, EdgeRisk(mapping, risks, e))]]

\* Line 70: edges_with_risk / edges_processed divides by zero on a graph without edges.
ApplyRaises(graph) == DOMAIN graph = {}

(***************************************************************************)
(* Route Planner: routing.py find_safe_route.                              *)
(***************************************************************************)
\* Node coordinates (x = longitude, y = latitude).
NodeX(n) == n
NodeY(n) == n % 2

\* Coordinates a request may give, as (lat, lon): the place of each node, and a
\* point far outside the network.
FarPoint == <<0, 3 * NumNodes>>
Points == {<<NodeY(n), NodeX(n)>> : n \in Nodes} \cup {FarPoint}

\* ox.distance.nearest_nodes(G, X, Y): the node nearest to (X, Y), the first one
\* in node order among equally near ones.
Dist2(n, X, Y) == (NodeX(n) - X) * (NodeX(n) - X) + (NodeY(n) - Y) * (NodeY(n) - Y)
nearest_nodes(X, Y) ==
    CHOOSE n \in Nodes : \A m \in Nodes :
        \/ Dist2(n, X, Y) < Dist2(m, X, Y)
        \/ Dist2(n, X, Y) = Dist2(m, X, Y) /\ n <= m

\* The value networkx reads for an edge under a weight name: attr.get(weight, 1).
AttrWeight(graph, e, weight) ==
    IF weight = "length" THEN RInt(graph[e].length)
    ELSE IF graph[e].risk_weight = NoAttr THEN ROne
    ELSE graph[e].risk_weight

ParallelEdges(graph, u, v) == {e \in DOMAIN graph : e[1] = u /\ e[2] = v}

\* Variant: the weight of the first parallel edge instead of the minimum.
MinWeightFirstKey(graph, u, v, weight) ==
    LET P == ParallelEdges(graph, u, v)
        m == CHOOSE e \in P : \A f \in P : e[3] <= f[3]
    IN  AttrWeight(graph, m, weight)

\* networkx's weight function on a multigraph: the minimum over the parallel edges.
MinWeight(graph, u, v, weight) ==
    LET P == ParallelEdges(graph, u, v)
        m == CHOOSE e \in P : \A f \in P :
                 RLe(AttrWeight(graph, e, weight), AttrWeight(graph, f, weight))
    IN  AttrWeight(graph, m, weight)

\* Dijkstra's algorithm from the source: dist[n] = <<>> while n is not reached.
RECURSIVE DijkstraLoop(_, _, _, _, _)
DijkstraLoop(graph, weight, dist, pred, done) ==
    LET cand == {n \in Nodes \ done : dist[n] # <<>>}
    IN  IF cand = {} THEN [dist |-> dist, pred |-> pred]
        ELSE LET u == CHOOSE n \in cand : \A m \in cand :
                          \/ RLt(dist[n], dist[m])
                          \/ ~RLt(dist[m], dist[n]) /\ n <= m
                 succ == {v \in Nodes \ (done \cup {u}) : ParallelEdges(graph, u, v) # {}}
                 via(v) == RAdd(dist[u], MinWeight(graph, u, v, weight))
                 better == {v \in succ : dist[v] = <<>> \/ RLt(via(v), dist[v])}
             IN  DijkstraLoop(graph, weight,
                              [v \in Nodes |-> IF v \in better THEN via(v) ELSE dist[v]],
                              [v \in Nodes |-> IF v \in better THEN u ELSE pred[v]],
                              done \cup {u})

RECURSIVE PathTo(_, _, _)
PathTo(pred, s, v) == IF v = s THEN <<s>> ELSE Append(PathTo(pred, s, pred[v]), v)

\* ox.routing.shortest_path / nx.shortest_path(G, orig, dest, weight): the list of
\* nodes of a minimum-weight path, [orig] when orig = dest, and NetworkXNoPath
\* (here: the empty sequence) when dest is not reachable.
shortest_path(graph, orig, dest, weight) ==
    IF orig = dest THEN <<orig>>
    ELSE LET r == DijkstraLoop(graph, weight,
                               [n \in Nodes |-> IF n = orig THEN RZero ELSE <<>>],
                               [n \in Nodes |-> n], {})
         IN  IF r.dist[dest] = <<>> THEN <<>> ELSE PathTo(r.pred, orig, dest)

\* Variant: an empty list instead of None when there is no path.
find_safe_route_EmptyList(graph, origin, dest, weight) ==
    Route(shortest_path(graph, nearest_nodes(origin[2], origin[1]),
                        nearest_nodes(dest[2], dest[1]), weight))

\* Lines 95-105.
find_safe_route(graph, origin, dest, weight) ==
    LET origin_node == nearest_nodes(origin[2], origin[1])
        dest_node == nearest_nodes(dest[2], dest[1])
        route == shortest_path(graph, origin_node, dest_node, weight)
    IN  IF route = <<>> THEN None          \* except nx.NetworkXNoPath: return None
        ELSE Route(route)

(***************************************************************************)
(* Route metrics and comparator: routing.py calculate_route_metrics and    *)
(* calculate_risk_reduction.                                               *)
(***************************************************************************)
ZeroMetrics == [length |-> 0, cumulative_risk |-> RZero, travel_time |-> 0, num_edges |-> 0]

\* Line 145: list(edge_data.keys())[0], the first key of the node pair (keys are
\* handed out in increasing order as edges are added).
FirstKeyEdge(graph, u, v) ==
    CHOOSE e \in ParallelEdges(graph, u, v) :
        \A f \in ParallelEdges(graph, u, v) : e[3] <= f[3]

\* The loop with the risk of an edge summed as it is, not weighted by the length.
RECURSIVE MetricsFromPlainRisk(_, _, _)
MetricsFromPlainRisk(graph, nodes, i) ==
    IF i >= Len(nodes) THEN ZeroMetrics
    ELSE LET rest == MetricsFromPlainRisk(graph, nodes, i + 1)
             u == nodes[i]
             v == nodes[i + 1]
         IN  IF ParallelEdges(graph, u, v) = {} THEN rest
             ELSE LET data == graph[FirstKeyEdge(graph, u, v)]
                      risk == IF data.risk = NoAttr THEN RZero ELSE data.risk
                  IN  [length |-> rest.length + data.length,
                       cumulative_risk |-> RAdd(rest.cumulative_risk, risk),
                       travel_time |-> rest.travel_time + data.travel_time,
                       num_edges |-> rest.num_edges + 1]

\* Lines 137-155: the loop over the consecutive node pairs, from pair i on.
RECURSIVE MetricsFrom(_, _, _)
MetricsFrom(graph, nodes, i) ==
    IF i >= Len(nodes) THEN ZeroMetrics
    ELSE LET rest == MetricsFrom(graph, nodes, i + 1)
             u == nodes[i]
             v == nodes[i + 1]
         IN  IF ParallelEdges(graph, u, v) = {} THEN rest      \* if edge_data:
             ELSE LET data == graph[FirstKeyEdge(graph, u, v)]
                      risk == IF data.risk = NoAttr THEN RZero ELSE data.risk
                  IN  [length |-> rest.length + data.length,
                       cumulative_risk |->
                           RAdd(rest.cumulative_risk, RMul(risk, RInt(data.length))),
                       travel_time |-> rest.travel_time + data.travel_time,
                       num_edges |-> rest.num_edges + 1]

\* Lines 124-162.
calculate_route_metrics(graph, route) ==
    IF route = None \/ Len(route.nodes) < 2 THEN ZeroMetrics
    ELSE MetricsFrom(graph, route.nodes, 1)

\* The guard with the test for None dropped: len(None) raises TypeError.
MetricsRaisesUnguarded(route) == route.tag # "list"

\* Line 124: `route is None or len(route) < 2`.  len(route) is evaluated only
\* when route is not None, and raises TypeError on a value that has no length.
\* Nothing after the guard raises: get_edge_data returns None for a node pair
\* without edges (or with unknown nodes) and the attributes are read with .get.
MetricsRaises(route) == ~(route = None) /\ route.tag # "list"

\* The comparator with the percentages taken relative to the safe route.
calculate_risk_reduction_OfSafe(sm, fm) ==
    LET safe_risk == sm.cumulative_risk
        fast_risk == fm.cumulative_risk
        length_difference == sm.length - fm.length
    IN  [risk_reduction_pct |->
             IF safe_risk = RZero THEN RZero
             ELSE RMul(RDiv(RSub(fast_risk, safe_risk), safe_risk), RInt(100)),
         absolute_risk_reduction |-> RSub(fast_risk, safe_risk),
         length_difference_m |-> length_difference,
         length_increase_pct |->
             IF sm.length > 0
             THEN RMul(RDiv(RInt(length_difference), RInt(sm.length)), RInt(100))
             ELSE RZero,
         safe_route_risk |-> safe_risk,
         fast_route_risk |-> fast_risk]

\* Lines 277-295.
calculate_risk_reduction(sm, fm) ==
    LET safe_risk == sm.cumulative_risk
        fast_risk == fm.cumulative_risk
        length_difference == sm.length - fm.length
    IN  [risk_reduction_pct |->
             IF fast_risk = RZero THEN RZero
             ELSE RMul(RDiv(RSub(fast_risk, safe_risk), fast_risk), RInt(100)),
         absolute_risk_reduction |-> RSub(fast_risk, safe_risk),
         length_difference_m |-> length_difference,
         length_increase_pct |->
             IF fm.length > 0
             THEN RMul(RDiv(RInt(length_difference), RInt(fm.length)), RInt(100))
             ELSE RZero,
         safe_route_risk |-> safe_risk,
         fast_route_risk |-> fast_risk]

\* Lines 280-286: a division is evaluated with a zero divisor.  Line 283 is
\* reached only when fast_risk == 0 is false, the division of line 286 only when
\* fast_metrics['length'] > 0.
ReductionRaises(sm, fm) ==
    \/ ~(fm.cumulative_risk = RZero) /\ fm.cumulative_risk = RZero
    \/ fm.length > 0 /\ fm.length = 0

(***************************************************************************)
(* Risk Aggregator: cynet_wrapper.py predict_next_4_hours and              *)
(* aggregate_tile_predictions.                                             *)
(*                                                                         *)
(* Time is counted in ticks, TicksPerHour to the hour.  A predictor is a   *)
(* record: its kind says what model.predict does,                          *)
(*   "ok"              returns a dict tile_id -> list of probabilities,    *)
(*   "no_predict"      the object has no predict attribute,                *)
(*   "attribute_error" predict raises AttributeError,                      *)
(*   "error"           predict raises any other exception;                 *)
(* an "ok" predictor is deterministic: it knows the tiles of `tiles` and   *)
(* gives each the probability `peak` at the instant `spike` and `base` at  *)
(* every other instant.                                                    *)
(***************************************************************************)
Horizon == 4        \* line 39: range(4)

NoModel == [kind |-> "none", tiles |-> {}, spike |-> 0, base |-> RZero, peak |-> RZero]

\* The reference instant left as it is.
FloorToHourIdentity(t) == t

\* Line 35: reference_time.replace(minute=0, second=0, microsecond=0)
FloorToHour(t) == t - (t % TicksPerHour)

\* Lines 38-40: [reference_time + timedelta(hours=i) for i in range(4)]
PredictionHours(ref) ==
    [i \in 1..Horizon |-> FloorToHour(ref) + (i - 1) * TicksPerHour]

\* Line 50: model.predict(prediction_hours) of an "ok" predictor.
ModelProbability(mdl, x) == IF x = mdl.spike THEN mdl.peak ELSE mdl.base
ModelPredict(mdl, hours) ==
    [t \in mdl.tiles |-> [i \in 1..Len(hours) |-> ModelProbability(mdl, hours[i])]]

\* The first value of a list instead of its greatest.
MaxOfFirst(v) == v[1]

\* max(v), np.mean(v) and sum(v) of a non-empty list.
MaxOf(v) == CHOOSE x \in {v[i] : i \in 1..Len(v)} : \A i \in 1..Len(v) : RLe(v[i], x)
MeanOf(v) == RDiv(RSum(v), RInt(Len(v)))
SumOf(v) == RSum(v)

\* Line 60: only AttributeError is caught; it is what the lookup of
\* model.predict raises on an object without that attribute.
PredictFallsBack(mdl) == mdl.kind \in {"no_predict", "attribute_error"}
\* Any other exception leaves predict_next_4_hours.
PredictRaises(mdl) == mdl.kind = "error"

\* Lines 64-66: np.random.seed(42), then one np.random.random() * 0.3 per tile
\* in the order of tiles_gdf.  The seeded draws are 0.3745..., 0.9507..., here
\* cut to two decimals.
RandomDraws == << <<37, 100>>, <<95, 100>> >>
FallbackScale == <<3, 10>>
FallbackRisks(tile_ids) ==
    [t \in {tile_ids[i] : i \in 1..Len(tile_ids)} |->
        RMul(RandomDraws[CHOOSE i \in 1..Len(tile_ids) : tile_ids[i] = t], FallbackScale)]

\* A tile missing from the predictor's output left out of the RiskMap.
ColdStartSkipped(predictions, tile_ids) ==
    [t \in {tile_ids[i] : i \in 1..Len(tile_ids)} \cap DOMAIN predictions |->
        MaxOf(predictions[t])]

\* Lines 53-58: the loop over tiles_gdf['tile_id'].
ColdStart(predictions, tile_ids) ==
    [t \in {tile_ids[i] : i \in 1..Len(tile_ids)} |->
        IF t \in DOMAIN predictions THEN MaxOf(predictions[t]) ELSE RZero]

\* Lines 31-68: the RiskMap returned when no exception leaves the function.
predict_next_4_hours(mdl, tile_ids, ref) ==
    IF PredictFallsBack(mdl) THEN FallbackRisks(tile_ids)
    ELSE ColdStart(ModelPredict(mdl, PredictionHours(ref)), tile_ids)

\* Lines 232-242: ValueError for an unknown method.
AggregateMethods == {"max", "mean", "sum"}
AggregateRaises(how) == how \notin AggregateMethods
aggregate_tile_predictions(predictions, how) ==
    [k \in DOMAIN predictions |->
        IF how = "max" THEN MaxOf(predictions[k])
        ELSE IF how = "mean" THEN MeanOf(predictions[k])
        ELSE SumOf(predictions[k])]

(***************************************************************************)
(* Grid Builder: spatial.py create_spatial_grid.                           *)
(*                                                                         *)
(* Geographic coordinates are whole degrees; the projection to UTM scales  *)
(* a degree to MetersPerDegree metres and the projection back divides, so  *)
(* that projected coordinates are integers and geographic ones rationals.  *)
(* A polygon made by box(minx, miny, maxx, maxy) is the tuple of its four  *)
(* arguments.                                                              *)
(***************************************************************************)
\* Lines 15-20.
DENVER_BBOX == [lat_min |-> 0, lat_max |-> 1, lon_min |-> 0, lon_max |-> MaxCoord]

NoGrid == <<>>

\* Lines 54-64: the corners in UTM.
ToUTM(c) == c * MetersPerDegree
\* Line 86: grid_utm.to_crs(crs_output).
ToWGS84(m) == RNorm(m, MetersPerDegree)

\* np.arange(start, stop, step), step # 0.
CeilDiv(a, b) == IF a <= 0 THEN 0 ELSE (a + b - 1) \div b
Arange(start, stop, step) ==
    IF step > 0
    THEN [k \in 1..CeilDiv(stop - start, step) |-> start + (k - 1) * step]
    ELSE [k \in 1..CeilDiv(start - stop, 0 - step) |-> start + (k - 1) * step]

\* Line 77: f"tile_{i}_{j}"
TileId(i, j) == "tile_" \o ToString(i) \o "_" \o ToString(j)

\* Lines 75 and 86-91: one tile, its polygon and centroid in the output CRS.
TileRow(i, j, x, y, size) ==
    [tile_id |-> TileId(i, j),
     geometry |-> <<ToWGS84(x), ToWGS84(y), ToWGS84(x + size), ToWGS84(y + size)>>,
     center_lon |-> RDiv(RAdd(ToWGS84(x), ToWGS84(x + size)), RInt(2)),
     center_lat |-> RDiv(RAdd(ToWGS84(y), ToWGS84(y + size)), RInt(2))]

\* The numbering of the columns and rows continued from one invocation to the next.
FirstIndexPerCall(r) == r

\* Lines 73-74: enumerate(...) numbers columns and rows from 0 in every invocation.
FirstIndex(r) == 0

\* Lines 67-68: np.arange raises on a zero step.
GridStepRaises(size) == size = 0

\* Lines 50-91: the rows of the grid, columns outermost, numbered from `first`.
create_spatial_grid(box, size, first) ==
    LET x_coords == Arange(ToUTM(box.lon_min), ToUTM(box.lon_max), size)
        y_coords == Arange(ToUTM(box.lat_min), ToUTM(box.lat_max), size)
        ny == Len(y_coords)
    IN  [k \in 1..(Len(x_coords) * ny) |->
            LET i == (k - 1) \div ny
                j == (k - 1) % ny
            IN  TileRow(first + i, first + j, x_coords[i + 1], y_coords[j + 1], size)]

(***************************************************************************)
(* Inputs.                                                                 *)
(***************************************************************************)
RiskLevels == {RNorm(k, RiskDen) : k \in 0..RiskDen}
\* A RiskMap as predict_next_4_hours returns it: a value for every tile.
RiskMaps == [Tiles -> RiskLevels]
\* A RiskMap handed to apply_risk_weights directly may miss tiles.
PartialRiskMaps == UNION {[T -> RiskLevels] : T \in SUBSET Tiles}

\* Every Overlay Map create_tile_edge_mapping can produce for the edges E.  An
\* exception or a part outside the tiles only removes contributions, so the
\* geometries without them already produce every such map.
PlainGeoms == {g \in EdgeGeoms : g.raises = {} /\ g.outside = 0}
OverlaysFor(E) == {create_tile_edge_mapping(geom) : geom \in [E -> PlainGeoms]}

\* The geometry of the served network: edge 1->2 (key 0) lies in the first tile,
\* its parallel edge (key 1) in the second, 2->3 crosses both equally, 1->3 lies
\* half in the second tile and half outside the grid, 3->1 lies outside the grid.
Geom(a, b, out) ==
    [inter |-> [t \in Tiles |-> IF t = TileIds[1] THEN a ELSE b],
     outside |-> out, raises |-> {}]
ServedGeom(e) ==
    IF e = <<1, 2, 0>> THEN Geom(1, 0, 0)
    ELSE IF e = <<1, 2, 1>> THEN Geom(0, 1, 0)
    ELSE IF e = <<2, 3, 0>> THEN Geom(1, 1, 0)
    ELSE IF e = <<1, 3, 0>> THEN Geom(0, 1, 1)
    ELSE Geom(0, 0, 1)

Objects == {0} \cup Requests

\* What a caller hands to calculate_route_metrics: None or a list of up to
\* MaxRoute nodes, a walk of the network or not.
RouteInputs == {None} \cup {Route(p) : p \in UNION {[1..k -> Nodes] : k \in 0..MaxRoute}}

\* Weighted networks over all the edge identifiers: the parallel edges 1 -> 2 and
\* the chord 1 -> 3 of length 1 or MaxLen, weighted with any RiskMap.
MetricsLengths ==
    {len \in [EdgeUniverse -> {1, MaxLen}] : len[<<2, 3, 0>>] = 1 /\ len[<<3, 1, 0>>] = MaxLen}

\* RouteMetrics records: any length, length-weighted risk, time and edge count.
MetricRecords ==
    {[length |-> len, cumulative_risk |-> RNorm(k, RiskDen),
      travel_time |-> len + n, num_edges |-> n] :
        len \in 0..(2 * MaxLen), k \in 0..(2 * MaxLen), n \in {2}}

\* Reference instants: any instant of the first two clock hours.
ReferenceTimes == 0..(2 * TicksPerHour - 1)
\* The instants a predictor can be asked about.
Instants == 0..((Horizon + 1) * TicksPerHour - 1)

\* Predictors: unavailable ones, and deterministic ones over any set of tiles
\* with a low or zero base probability and a zero or certain peak.
Models ==
    {[NoModel EXCEPT !.kind = k] : k \in {"no_predict", "attribute_error", "error"}}
    \cup [kind : {"ok"}, tiles : SUBSET Tiles, spike : Instants,
          base : {RZero, RNorm(1, RiskDen)}, peak : {RZero, ROne}]

\* Bounding boxes, degenerate and inverted ones included, and tile sizes.
BBoxes == [lat_min : 0..MaxCoord, lat_max : 0..MaxCoord,
           lon_min : 0..MaxCoord, lon_max : 0..MaxCoord]
TileSizes == (0 - 1)..MaxTile

(***************************************************************************)
(* 06_prepare_network.py: the overlay script.                              *)
(***************************************************************************)
\* main(), lines 241-245: build and save the mapping.  On a network without edges
\* the conversion to a GeoDataFrame and the coverage line (177) fail.
BuildOverlay ==
    /\ pc[0] = "mapping"
    /\ IF DOMAIN heap[0] = {}
       THEN /\ pc' = [pc EXCEPT ![0] = "crashed"]
            /\ UNCHANGED tile_edge_mapping
       ELSE /\ tile_edge_mapping' = create_tile_edge_mapping(edge_geom)
            /\ pc' = [pc EXCEPT ![0] = "mapped"]
    /\ UNCHANGED <<tiling, prediction, heap, edge_geom, origin_point, dest_point, tile_risks, G_risk,
                   safe_route, fast_route, results>>

(***************************************************************************)
(* A caller that hands its own graph to apply_risk_weights.                *)
(***************************************************************************)
DirectApply(r) ==
    /\ pc[r] = "direct"
    /\ heap' = [heap EXCEPT ![0] = apply_risk_weights(@, tile_edge_mapping, tile_risks[r])]
    /\ IF ApplyRaises(heap[0])
       THEN /\ pc' = [pc EXCEPT ![r] = "crashed"]
            /\ UNCHANGED G_risk
       ELSE /\ pc' = [pc EXCEPT ![r] = "returned"]
            /\ G_risk' = [G_risk EXCEPT ![r] = 0]        \* return G
    /\ UNCHANGED <<tiling, prediction, edge_geom, tile_edge_mapping, origin_point, dest_point, tile_risks,
                   safe_route, fast_route, results>>

(***************************************************************************)
(* app.py main(): one route request, step by step.                         *)
(***************************************************************************)
\* Line 280: the RiskMap of the request.
Predict(r) ==
    /\ pc[r] = "start"
    /\ \E risks \in RiskMaps : tile_risks' = [tile_risks EXCEPT ![r] = risks]
    /\ pc' = [pc EXCEPT ![r] = "predicted"]
    /\ UNCHANGED <<tiling, prediction, heap, edge_geom, tile_edge_mapping, origin_point, dest_point, G_risk,
                   safe_route, fast_route, results>>

\* Variant: no copy, the cached graph itself is handed over.
CopyTargetAlias(r) == 0

\* Line 290, G.copy(): the object apply_risk_weights is handed.
CopyTarget(r) == r

CopyNetwork(r) ==
    /\ pc[r] = "predicted"
    /\ LET ref == CopyTarget(r)
       IN  /\ heap' = [heap EXCEPT ![ref] = heap[0]]
           /\ G_risk' = [G_risk EXCEPT ![r] = ref]
    /\ pc' = [pc EXCEPT ![r] = "copied"]
    /\ UNCHANGED <<tiling, prediction, edge_geom, tile_edge_mapping, origin_point, dest_point, tile_risks,
                   safe_route, fast_route, results>>

\* Line 290, apply_risk_weights(...): weights are written into the object handed over.
Weigh(r) ==
    /\ pc[r] = "copied"
    /\ heap' = [heap EXCEPT ![G_risk[r]] =
                    apply_risk_weights(@, tile_edge_mapping, tile_risks[r])]
    /\ pc' = [pc EXCEPT ![r] = IF ApplyRaises(heap[G_risk[r]]) THEN "crashed" ELSE "weighted"]
    /\ UNCHANGED <<tiling, prediction, edge_geom, tile_edge_mapping, origin_point, dest_point, tile_risks,
                   G_risk, safe_route, fast_route, results>>

\* Variant: the first search minimises length like the second.
SafeWeightLength == "length"

\* Line 292: weight='risk_weight'.
SafeWeight == "risk_weight"

\* Line 293: weight='length'.
FastWeight == "length"

\* Line 292.
FindSafe(r) ==
    /\ pc[r] = "weighted"
    /\ safe_route' = [safe_route EXCEPT ![r] =
           find_safe_route(heap[G_risk[r]], origin_point[r], dest_point[r], SafeWeight)]
    /\ pc' = [pc EXCEPT ![r] = "safe_found"]
    /\ UNCHANGED <<tiling, prediction, heap, edge_geom, tile_edge_mapping, origin_point, dest_point, tile_risks,
                   G_risk, fast_route, results>>

\* Line 293.
FindFast(r) ==
    /\ pc[r] = "safe_found"
    /\ fast_route' = [fast_route EXCEPT ![r] =
           find_safe_route(heap[G_risk[r]], origin_point[r], dest_point[r], FastWeight)]
    /\ pc' = [pc EXCEPT ![r] = "fast_found"]
    /\ UNCHANGED <<tiling, prediction, heap, edge_geom, tile_edge_mapping, origin_point, dest_point, tile_risks,
                   G_risk, safe_route, results>>

\* Lines 295-306.  st.error + st.stop() when a route is None.  route_to_gdf on a
\* route of a single node selects from a subgraph without edges: depending on the
\* OSMnx build it raises or yields an empty frame.
Finish(r) ==
    /\ pc[r] = "fast_found"
    /\ IF safe_route[r] = None \/ fast_route[r] = None
       THEN /\ pc' = [pc EXCEPT ![r] = "error"]
            /\ UNCHANGED results
       ELSE \/ /\ Len(safe_route[r].nodes) < 2 \/ Len(fast_route[r].nodes) < 2
               /\ pc' = [pc EXCEPT ![r] = "crashed"]
               /\ UNCHANGED results
            \/ LET sm == calculate_route_metrics(heap[G_risk[r]], safe_route[r])
                   fm == calculate_route_metrics(heap[G_risk[r]], fast_route[r])
               IN  /\ safe_metrics' = [safe_metrics EXCEPT ![r] = sm]
                   /\ fast_metrics' = [fast_metrics EXCEPT ![r] = fm]
                   /\ reduction' = [reduction EXCEPT ![r] = calculate_risk_reduction(sm, fm)]
                   /\ pc' = [pc EXCEPT ![r] = "done"]
    /\ UNCHANGED <<tiling, prediction, heap, edge_geom, tile_edge_mapping, origin_point, dest_point, tile_risks,
                   G_risk, safe_route, fast_route>>

(***************************************************************************)
(* Callers of the metrics and of the comparator outside main().            *)
(***************************************************************************)
\* routing.py compare_routes, lines 205-208: calculate_route_metrics(G, route)
\* on whatever route the caller holds, None included.
MetricsCall(r) ==
    /\ pc[r] = "metrics"
    /\ IF MetricsRaises(safe_route[r])
       THEN /\ pc' = [pc EXCEPT ![r] = "crashed"]
            /\ UNCHANGED results
       ELSE /\ safe_metrics' =
                  [safe_metrics EXCEPT ![r] = calculate_route_metrics(heap[0], safe_route[r])]
            /\ pc' = [pc EXCEPT ![r] = "measured"]
            /\ UNCHANGED <<fast_metrics, reduction>>
    /\ UNCHANGED <<tiling, prediction, heap, edge_geom, tile_edge_mapping, origin_point, dest_point, tile_risks,
                   G_risk, safe_route, fast_route>>

\* calculate_risk_reduction(safe_metrics, fast_metrics) on two RouteMetrics.
CompareCall(r) ==
    /\ pc[r] = "compare"
    /\ IF ReductionRaises(safe_metrics[r], fast_metrics[r])
       THEN /\ pc' = [pc EXCEPT ![r] = "crashed"]
            /\ UNCHANGED results
       ELSE /\ reduction' = [reduction EXCEPT
                                ![r] = calculate_risk_reduction(safe_metrics[r], fast_metrics[r])]
            /\ pc' = [pc EXCEPT ![r] = "compared"]
            /\ UNCHANGED <<safe_metrics, fast_metrics>>
    /\ UNCHANGED <<tiling, prediction, heap, edge_geom, tile_edge_mapping, origin_point, dest_point, tile_risks,
                   G_risk, safe_route, fast_route>>

(***************************************************************************)
(* Calls of the Risk Aggregator.                                           *)
(***************************************************************************)
\* predict_next_4_hours(model, tiles_gdf, reference_time), lines 31-68.
PredictCall(r) ==
    /\ pc[r] = "call"
    /\ prediction_hours' = [prediction_hours EXCEPT ![r] = PredictionHours(reference_time[r])]
    /\ IF PredictRaises(model)
       THEN /\ pc' = [pc EXCEPT ![r] = "crashed"]
            /\ UNCHANGED tile_risks
       ELSE /\ tile_risks' = [tile_risks EXCEPT
                                 ![r] = predict_next_4_hours(model, TileIds, reference_time[r])]
            /\ pc' = [pc EXCEPT ![r] = "predicted"]
    /\ UNCHANGED <<heap, edge_geom, tile_edge_mapping, origin_point, dest_point, G_risk,
                   safe_route, fast_route, results, model, reference_time, method, tiling>>

\* aggregate_tile_predictions(predictions, method) on the output of the
\* predictor for the horizon of the reference instant.
AggregateCall(r) ==
    /\ pc[r] = "aggregate"
    /\ prediction_hours' = [prediction_hours EXCEPT ![r] = PredictionHours(reference_time[r])]
    /\ IF AggregateRaises(method[r])
       THEN /\ pc' = [pc EXCEPT ![r] = "value_error"]
            /\ UNCHANGED tile_risks
       ELSE /\ tile_risks' = [tile_risks EXCEPT
                                 ![r] = aggregate_tile_predictions(
                                            ModelPredict(model, PredictionHours(reference_time[r])),
                                            method[r])]
            /\ pc' = [pc EXCEPT ![r] = "aggregated"]
    /\ UNCHANGED <<heap, edge_geom, tile_edge_mapping, origin_point, dest_point, G_risk,
                   safe_route, fast_route, results, model, reference_time, method, tiling>>

(***************************************************************************)
(* Invocations of the Grid Builder.                                        *)
(***************************************************************************)
\* create_spatial_grid(bbox, tile_size_m), lines 46-97.  No parameter is
\* validated.  A zero tile size makes np.arange raise; a grid without tiles is
\* handed to GeoDataFrame as two empty lists, which the installed geopandas
\* accepts or rejects.
GridCall(r) ==
    /\ pc[r] = "grid"
    /\ LET rows == create_spatial_grid(bbox[r], tile_size_m[r], FirstIndex(r))
       IN  IF GridStepRaises(tile_size_m[r]) \/ (rows = <<>> /\ empty_frame_raises)
           THEN /\ pc' = [pc EXCEPT ![r] = "raised"]
                /\ UNCHANGED grid
           ELSE /\ grid' = [grid EXCEPT ![r] = rows]
                /\ pc' = [pc EXCEPT ![r] = "built"]
    /\ UNCHANGED <<heap, edge_geom, tile_edge_mapping, origin_point, dest_point, tile_risks,
                   G_risk, safe_route, fast_route, results, prediction, bbox, tile_size_m,
                   empty_frame_raises>>

(***************************************************************************)
(* Initial states and specifications.                                      *)
(***************************************************************************)
NoResults ==
    /\ safe_metrics = [r \in Requests |-> <<>>]
    /\ fast_metrics = [r \in Requests |-> <<>>]
    /\ reduction = [r \in Requests |-> <<>>]

NoRequest ==
    /\ tile_risks = [r \in Requests |-> NoRisks]
    /\ NoResults
    /\ G_risk = [r \in Requests |-> NoRef]
    /\ safe_route = [r \in Requests |-> NotYet]
    /\ fast_route = [r \in Requests |-> NotYet]

\* No predictor is part of the run.
NoPrediction ==
    /\ model = NoModel
    /\ reference_time = [r \in Requests |-> 0]
    /\ prediction_hours = [r \in Requests |-> <<>>]
    /\ method = [r \in Requests |-> "max"]

\* No grid is built in the run.
NoTiling ==
    /\ bbox = [r \in Requests |-> DENVER_BBOX]
    /\ tile_size_m = [r \in Requests |-> 1]
    /\ grid = [r \in Requests |-> NoGrid]
    /\ empty_frame_raises = FALSE

HeapOf(net) == [o \in Objects |-> IF o = 0 THEN net ELSE <<>>]

\* The overlay script on a network of at most two edges with any geometry.
OverlayEdgeSets == {E \in SUBSET EdgeUniverse : Cardinality(E) <= 2}

InitOverlay ==
    /\ \E E \in OverlayEdgeSets : \E geom \in [E -> EdgeGeoms] :
          /\ edge_geom = geom
          /\ heap = HeapOf([e \in E |-> EdgeAttrs(GeomLength(geom[e]))])
    /\ tile_edge_mapping = <<>>
    /\ pc = [o \in Objects |-> IF o = 0 THEN "mapping" ELSE "off"]
    /\ NoPrediction
    /\ NoTiling
    /\ origin_point = [r \in Requests |-> FarPoint]
    /\ dest_point = [r \in Requests |-> FarPoint]
    /\ NoRequest

SpecOverlay == InitOverlay /\ [][BuildOverlay]_vars

\* apply_risk_weights on any network of at most two edges, any Overlay Map the
\* mapper can have produced for it, and any RiskMap.
WeightEdgeSets == {E \in SUBSET {<<1, 2, 0>>, <<1, 2, 1>>, <<2, 3, 0>>} : Cardinality(E) <= 2}

InitWeight ==
    /\ \E E \in WeightEdgeSets : \E net \in NetworksOver(E) : \E overlay \in OverlaysFor(E) :
          /\ heap = HeapOf(net)
          /\ tile_edge_mapping = overlay
    /\ edge_geom = NoGeom
    /\ NoPrediction
    /\ NoTiling
    /\ pc = [o \in Objects |-> IF o = 1 THEN "direct" ELSE "off"]
    /\ origin_point = [r \in Requests |-> FarPoint]
    /\ dest_point = [r \in Requests |-> FarPoint]
    /\ \E risks \in PartialRiskMaps :
          tile_risks = [r \in Requests |-> IF r = 1 THEN risks ELSE NoRisks]
    /\ G_risk = [r \in Requests |-> NoRef]
    /\ safe_route = [r \in Requests |-> NotYet]
    /\ fast_route = [r \in Requests |-> NotYet]
    /\ NoResults

NextWeight == \E r \in Requests : DirectApply(r)

SpecWeight == InitWeight /\ [][NextWeight]_vars

\* The served application: the cached Network and its Overlay Map, built by the
\* overlay script from the served geometry.
Served(E, lengths, active) ==
    /\ \E len \in lengths : heap = HeapOf([e \in E |-> EdgeAttrs(len[e])])
    /\ tile_edge_mapping = create_tile_edge_mapping([e \in E |-> ServedGeom(e)])
    /\ edge_geom = NoGeom
    /\ NoPrediction
    /\ NoTiling
    /\ pc = [o \in Objects |-> IF o \in active THEN "start" ELSE "off"]
    /\ NoRequest

Next ==
    \E r \in Requests :
        \/ Predict(r)
        \/ CopyNetwork(r)
        \/ Weigh(r)
        \/ FindSafe(r)
        \/ FindFast(r)
        \/ Finish(r)

\* One request, any origin and destination, on several networks.
RouteEdgeSets ==
    {{}, EdgeUniverse \ {<<3, 1, 0>>}, {<<1, 2, 0>>, <<2, 3, 0>>, <<3, 1, 0>>},
     {<<1, 2, 0>>, <<1, 2, 1>>}}

\* Edge lengths 0, 1 and MaxLen; on the four-edge network 0 and MaxLen.
RouteLengths(E) ==
    IF Cardinality(E) > 3 THEN [E -> {0, MaxLen}] ELSE [E -> {0, 1, MaxLen}]

InitRoute ==
    /\ \E E \in RouteEdgeSets : Served(E, RouteLengths(E), {1})
    /\ \E o \in Points, d \in Points :
          /\ origin_point = [r \in Requests |-> IF r = 1 THEN o ELSE FarPoint]
          /\ dest_point = [r \in Requests |-> IF r = 1 THEN d ELSE FarPoint]

SpecRoute == InitRoute /\ [][Next]_vars

\* Two concurrent requests from node 1 to node 3 on the same cached network:
\* unit edges 1 -> 2 (twice) and 2 -> 3, and a chord 1 -> 3 of length 1 or MaxLen.
Init ==
    /\ LET E == EdgeUniverse \ {<<3, 1, 0>>}
       IN  Served(E, {len \in [E -> {1, MaxLen}] : \A e \in E : e # <<1, 3, 0>> => len[e] = 1},
                  Requests)
    /\ origin_point = [r \in Requests |-> <<NodeY(1), NodeX(1)>>]
    /\ dest_point = [r \in Requests |-> <<NodeY(3), NodeX(3)>>]

Spec == Init /\ [][Next]_vars

\* calculate_route_metrics on a weighted network and any node list.
InitMetrics ==
    /\ tile_edge_mapping = create_tile_edge_mapping([e \in EdgeUniverse |-> ServedGeom(e)])
    /\ \E len \in MetricsLengths : \E risks \in RiskMaps :
          /\ tile_risks = [r \in Requests |-> IF r = 1 THEN risks ELSE NoRisks]
          /\ heap = HeapOf(apply_risk_weights([e \in EdgeUniverse |-> EdgeAttrs(len[e])],
                                              tile_edge_mapping, risks))
    /\ edge_geom = NoGeom
    /\ NoPrediction
    /\ NoTiling
    /\ pc = [o \in Objects |-> IF o = 1 THEN "metrics" ELSE "off"]
    /\ origin_point = [r \in Requests |-> FarPoint]
    /\ dest_point = [r \in Requests |-> FarPoint]
    /\ G_risk = [r \in Requests |-> IF r = 1 THEN 0 ELSE NoRef]
    /\ \E route \in RouteInputs :
          safe_route = [r \in Requests |-> IF r = 1 THEN route ELSE NotYet]
    /\ fast_route = [r \in Requests |-> NotYet]
    /\ NoResults

NextMetrics == \E r \in Requests : MetricsCall(r)

SpecMetrics == InitMetrics /\ [][NextMetrics]_vars

\* calculate_risk_reduction on any two RouteMetrics.
InitCompare ==
    /\ heap = HeapOf(<<>>)
    /\ tile_edge_mapping = <<>>
    /\ edge_geom = NoGeom
    /\ NoPrediction
    /\ NoTiling
    /\ pc = [o \in Objects |-> IF o = 1 THEN "compare" ELSE "off"]
    /\ origin_point = [r \in Requests |-> FarPoint]
    /\ dest_point = [r \in Requests |-> FarPoint]
    /\ tile_risks = [r \in Requests |-> NoRisks]
    /\ G_risk = [r \in Requests |-> NoRef]
    /\ safe_route = [r \in Requests |-> NotYet]
    /\ fast_route = [r \in Requests |-> NotYet]
    /\ \E sm \in MetricRecords, fm \in MetricRecords :
          /\ safe_metrics = [r \in Requests |-> IF r = 1 THEN sm ELSE <<>>]
          /\ fast_metrics = [r \in Requests |-> IF r = 1 THEN fm ELSE <<>>]
    /\ reduction = [r \in Requests |-> <<>>]

NextCompare == \E r \in Requests : CompareCall(r)

SpecCompare == InitCompare /\ [][NextCompare]_vars

\* Two calls of the Risk Aggregator with the same predictor: request 2 calls
\* predict_next_4_hours; request 1 calls it too, or aggregates the predictor's
\* output with aggregate_tile_predictions and any method name.
InitPredict ==
    /\ heap = HeapOf(<<>>)
    /\ tile_edge_mapping = <<>>
    /\ edge_geom = NoGeom
    /\ origin_point = [r \in Requests |-> FarPoint]
    /\ dest_point = [r \in Requests |-> FarPoint]
    /\ NoRequest
    /\ model \in Models
    /\ reference_time \in [Requests -> ReferenceTimes]
    /\ prediction_hours = [r \in Requests |-> <<>>]
    /\ NoTiling
    /\ \/ /\ pc = [o \in Objects |-> IF o = 0 THEN "off" ELSE "call"]
          /\ method = [r \in Requests |-> "max"]
       \/ /\ model.kind = "ok"
          /\ pc = [o \in Objects |-> IF o = 1 THEN "aggregate" ELSE IF o = 2 THEN "call" ELSE "off"]
          /\ \E how \in AggregateMethods \cup {"median"} :
                method = [r \in Requests |-> IF r = 1 THEN how ELSE "max"]

NextPredict == \E r \in Requests : PredictCall(r) \/ AggregateCall(r)

SpecPredict == InitPredict /\ [][NextPredict]_vars

\* Two invocations of the Grid Builder: the first with any bounding box and tile
\* size, the second with the same arguments or with the Denver box.
InitGrid ==
    /\ heap = HeapOf(<<>>)
    /\ tile_edge_mapping = <<>>
    /\ edge_geom = NoGeom
    /\ origin_point = [r \in Requests |-> FarPoint]
    /\ dest_point = [r \in Requests |-> FarPoint]
    /\ NoRequest
    /\ NoPrediction
    /\ pc = [o \in Objects |-> IF o = 0 THEN "off" ELSE "grid"]
    /\ \E b \in BBoxes, size \in TileSizes :
          /\ bbox \in {[r \in Requests |-> b],
                       [r \in Requests |-> IF r = 1 THEN b ELSE DENVER_BBOX]}
          /\ tile_size_m = [r \in Requests |-> size]
    /\ grid = [r \in Requests |-> NoGrid]
    /\ empty_frame_raises \in BOOLEAN

NextGrid == \E r \in Requests : GridCall(r)

SpecGrid == InitGrid /\ [][NextGrid]_vars

(***************************************************************************)
(* Properties.                                                             *)
(***************************************************************************)
RECURSIVE RSumSet(_, _)
RSumSet(f, S) ==
    IF S = {} THEN RZero
    ELSE LET x == CHOOSE y \in S : TRUE IN RAdd(f[x], RSumSet(f, S \ {x}))

\* The risk an edge is to get: each contribution's fraction times the risk of
\* its tile, tiles missing from the RiskMap counting 0; 0 for an unmapped edge.
ExpectedRisk(mapping, risks, e) ==
    IF e \notin DOMAIN mapping THEN RZero
    ELSE LET tcs == mapping[e]
             term == [i \in 1..Len(tcs) |->
                         IF tcs[i].tile_id \in DOMAIN risks
                         THEN RMul(risks[tcs[i].tile_id], tcs[i].fraction)
                         ELSE RZero]
         IN  RSumSet(term, 1..Len(tcs))

DirectCallOver == pc[1] \in {"returned", "crashed"}

\* C1: after apply_risk_weights(G, overlay, risk_map) every edge has risk = the
\* sum over its overlay contributions of risk_map[tile_id] * fraction (a missing
\* tile counts 0.0, an edge absent from the overlay has risk 0.0) and
\* risk_weight = length * (1 + risk); the call fails only on a graph without edges.
C1_RiskAndWeight ==
    DirectCallOver =>
        /\ pc[1] = "crashed" => DOMAIN heap[0] = {}
        /\ \A e \in DOMAIN heap[0] :
              LET a == heap[0][e]
              IN  /\ a.risk = ExpectedRisk(tile_edge_mapping, tile_risks[1], e)
                  /\ a.risk_weight # NoAttr
                  /\ a.risk_weight[1] * a.risk[2]
                        = a.risk_weight[2] * a.length * (a.risk[2] + a.risk[1])

C1_Witness ==
    /\ pc[1] = "returned"
    /\ \E e \in DOMAIN heap[0] : e \notin DOMAIN tile_edge_mapping /\ heap[0][e].risk = RZero
    /\ \E e \in DOMAIN tile_edge_mapping :
          /\ Len(tile_edge_mapping[e]) = 2
          /\ tile_edge_mapping[e][1].tile_id \notin DOMAIN tile_risks[1]
          /\ RLt(RZero, heap[0][e].risk)
          /\ heap[0][e].length > 0

\* C2 as stated: risk_weight >= length, with equality iff the edge's risk is 0.
C2_EqualityIffZeroRisk ==
    pc[1] = "returned" =>
        \A e \in DOMAIN heap[0] :
            LET a == heap[0][e]
            IN  /\ RLe(RInt(a.length), a.risk_weight)
                /\ (a.risk_weight = RInt(a.length)) <=> (a.risk = RZero)

\* C2 (amended): for a RiskMap with values in [0,1], risk_weight >= length, with
\* equality iff the edge's risk is 0 or its length is 0.
C2_Monotone ==
    pc[1] = "returned" =>
        \A e \in DOMAIN heap[0] :
            LET a == heap[0][e]
            IN  /\ RLe(RInt(a.length), a.risk_weight)
                /\ (a.risk_weight = RInt(a.length)) <=> (a.risk = RZero \/ a.length = 0)

C2_Witness ==
    /\ pc[1] = "returned"
    /\ \E e \in DOMAIN heap[0] :
          heap[0][e].length > 0 /\ RLt(RInt(heap[0][e].length), heap[0][e].risk_weight)
    /\ \E e \in DOMAIN heap[0] :
          heap[0][e].length = 0 /\ RLt(RZero, heap[0][e].risk)

\* C3: the fractions of every edge present in the Overlay Map sum to 1.
C3_FractionsSumToOne ==
    pc[0] = "mapped" =>
        \A e \in DOMAIN tile_edge_mapping :
            LET tcs == tile_edge_mapping[e]
            IN  /\ Len(tcs) > 0
                /\ RSumSet(Fractions(tcs), 1..Len(tcs)) = ROne

C3_Witness ==
    /\ pc[0] = "mapped"
    /\ \E e \in DOMAIN tile_edge_mapping :
          /\ Len(tile_edge_mapping[e]) = 2
          /\ edge_geom[e].outside > 0
    /\ \E e \in DOMAIN tile_edge_mapping : edge_geom[e].raises # {}

\* C4: an edge of geometric length 0 has no entry in the Overlay Map.
C4_ZeroLengthEdgeAbsent ==
    \A e \in DOMAIN edge_geom :
        GeomLength(edge_geom[e]) = 0 => e \notin DOMAIN tile_edge_mapping

C4_Witness ==
    /\ pc[0] = "mapped"
    /\ \E e \in DOMAIN edge_geom : GeomLength(edge_geom[e]) = 0
    /\ DOMAIN tile_edge_mapping # {}

\* C5 as stated: a call of apply_risk_weights leaves the attributes of the graph
\* object it was handed as they were.
C5_CallerGraphUntouched ==
    [][(pc[1] = "direct" /\ pc'[1] = "returned") => heap'[0] = heap[0]]_vars

(***************************************************************************)
(* Properties of the served application.                                   *)
(***************************************************************************)
Weighted(r) == pc[r] \in {"weighted", "safe_found", "fast_found", "done", "error"}
SafeSearched(r) == safe_route[r] # NotYet
FastSearched(r) == fast_route[r] # NotYet

\* What request r computes when it runs alone on the cached network.
OwnGraph(r) == apply_risk_weights(heap[0], tile_edge_mapping, tile_risks[r])

\* C6: in every interleaving of two requests, the cached Network carries no
\* risk or risk_weight attribute, and each request's weighted graph, routes and
\* metrics are those derived from its own RiskMap.
C6_RequestsIsolated ==
    /\ \A e \in DOMAIN heap[0] :
          heap[0][e].risk = NoAttr /\ heap[0][e].risk_weight = NoAttr
    /\ \A r \in Requests :
          Weighted(r) =>
              LET own == OwnGraph(r)
              IN  /\ heap[G_risk[r]] = own
                  /\ SafeSearched(r) =>
                        safe_route[r] =
                            find_safe_route(own, origin_point[r], dest_point[r], "risk_weight")
                  /\ FastSearched(r) =>
                        fast_route[r] =
                            find_safe_route(own, origin_point[r], dest_point[r], "length")
                  /\ pc[r] = "done" =>
                        /\ safe_metrics[r] = calculate_route_metrics(own, safe_route[r])
                        /\ fast_metrics[r] = calculate_route_metrics(own, fast_route[r])

C6_Witness ==
    /\ pc[1] = "done" /\ pc[2] = "done"
    /\ tile_risks[1] # tile_risks[2]
    /\ safe_route[1] # safe_route[2]
    /\ safe_metrics[1].cumulative_risk # safe_metrics[2].cumulative_risk

\* The cost of a walk under a weight selector, the cheapest parallel edge
\* counting for each consecutive node pair.
EdgeCost(graph, e, weight) ==
    IF weight = "length" THEN RInt(graph[e].length) ELSE graph[e].risk_weight

IsCheapest(graph, e, weight) ==
    \A f \in ParallelEdges(graph, e[1], e[2]) :
        RLe(EdgeCost(graph, e, weight), EdgeCost(graph, f, weight))

StepCost(graph, u, v, weight) ==
    EdgeCost(graph, CHOOSE e \in ParallelEdges(graph, u, v) : IsCheapest(graph, e, weight),
             weight)

IsWalk(graph, w) ==
    /\ Len(w) >= 1
    /\ \A i \in 1..(Len(w) - 1) : ParallelEdges(graph, w[i], w[i + 1]) # {}

WalkCost(graph, w, weight) ==
    RSumSet([i \in 1..(Len(w) - 1) |-> StepCost(graph, w[i], w[i + 1], weight)],
            1..(Len(w) - 1))

\* The walks of at most k edges that start at s.
RECURSIVE WalksFrom(_, _, _)
WalksFrom(graph, s, k) ==
    IF k = 0 THEN {<<s>>}
    ELSE LET W == WalksFrom(graph, s, k - 1)
         IN  W \cup {Append(p[1], p[2]) :
                        p \in {q \in W \X Nodes :
                                  ParallelEdges(graph, q[1][Len(q[1])], q[2]) # {}}}

OptimalRoute(graph, route, origin, dest, weight) ==
    route.tag = "list" =>
        LET s == nearest_nodes(origin[2], origin[1])
            t == nearest_nodes(dest[2], dest[1])
            p == route.nodes
        IN  /\ IsWalk(graph, p)
            /\ p[1] = s /\ p[Len(p)] = t
            /\ \A w \in WalksFrom(graph, s, NumNodes) :
                  w[Len(w)] = t => RLe(WalkCost(graph, p, weight), WalkCost(graph, w, weight))

\* C7: a route returned for weight selector w is a walk along directed edges
\* from the snapped origin to the snapped destination whose total w (cheapest
\* parallel edge per node pair) is no greater than that of any other such walk.
C7_RouteMinimizesWeight ==
    \A r \in Requests :
        /\ SafeSearched(r) =>
              OptimalRoute(heap[G_risk[r]], safe_route[r], origin_point[r], dest_point[r],
                           "risk_weight")
        /\ FastSearched(r) =>
              OptimalRoute(heap[G_risk[r]], fast_route[r], origin_point[r], dest_point[r],
                           "length")

\* A route over the second of two parallel edges, with another walk to compare.
C7_Witness ==
    /\ pc[1] = "done"
    /\ Len(safe_route[1].nodes) = 3
    /\ Len(fast_route[1].nodes) = 2
    /\ LET g == heap[G_risk[1]]
       IN  /\ <<1, 2, 1>> \in DOMAIN g
           /\ RLt(g[<<1, 2, 1>>].risk_weight, g[<<1, 2, 0>>].risk_weight)

\* C8: when every tile's risk is 0, the route by risk_weight is the route by length.
C8_ZeroRiskSameRoute ==
    \A r \in Requests :
        (FastSearched(r) /\ \A t \in Tiles : tile_risks[r][t] = RZero)
            => safe_route[r] = fast_route[r]

C8_Witness ==
    /\ pc[1] = "done"
    /\ \A t \in Tiles : tile_risks[1][t] = RZero
    /\ Len(safe_route[1].nodes) = 3
    /\ safe_route[1] = fast_route[1]

\* The nodes reachable from the nodes S along directed edges.
RECURSIVE ReachableFrom(_, _)
ReachableFrom(graph, S) ==
    LET N == S \cup {e[2] : e \in {f \in DOMAIN graph : f[1] \in S}}
    IN  IF N = S THEN S ELSE ReachableFrom(graph, N)

Disconnected(r) ==
    nearest_nodes(dest_point[r][2], dest_point[r][1])
        \notin ReachableFrom(heap[G_risk[r]],
                             {nearest_nodes(origin_point[r][2], origin_point[r][1])})

\* C9: when there is no directed path from the snapped origin to the snapped
\* destination, find_safe_route returns None under either weight selector, and
\* the request goes on to its explicit error outcome.
C9_NoPathGivesNone ==
    \A r \in Requests :
        /\ (SafeSearched(r) /\ Disconnected(r)) => safe_route[r] = None
        /\ (FastSearched(r) /\ Disconnected(r)) => fast_route[r] = None
        /\ (pc[r] \in {"done", "error"} /\ Disconnected(r)) => pc[r] = "error"

C9_Witness ==
    /\ pc[1] = "error"
    /\ Disconnected(1)
    /\ DOMAIN heap[0] # {}
    /\ safe_route[1] = None /\ fast_route[1] = None

\* C10 as stated: every route returned has at least 2 nodes and no two equal
\* consecutive nodes.
C10_RouteHasTwoNodes ==
    \A r \in Requests :
        safe_route[r].tag = "list" =>
            /\ Len(safe_route[r].nodes) >= 2
            /\ \A i \in 1..(Len(safe_route[r].nodes) - 1) :
                  safe_route[r].nodes[i] # safe_route[r].nodes[i + 1]

\* The edge calculate_route_metrics reads for the i-th node pair of a route.
PairEdge(graph, nodes, i) ==
    CHOOSE e \in DOMAIN graph :
        /\ e[1] = nodes[i] /\ e[2] = nodes[i + 1]
        /\ \A f \in DOMAIN graph : (f[1] = e[1] /\ f[2] = e[2]) => e[3] <= f[3]

MetricsCallOver == pc[1] \in {"measured", "crashed"}

\* C11: for a route of n >= 2 nodes (a walk of the weighted network)
\* calculate_route_metrics returns length = the sum of the edges' length,
\* cumulative_risk = the sum of risk * length, travel_time = the sum of
\* travel_time, and num_edges = n - 1, over the consecutive node pairs (the edge
\* of a pair being its first-keyed one).
C11_MetricsAreSums ==
    LET route == safe_route[1]
        graph == heap[0]
        n == Len(route.nodes)
        pairs == 1..(n - 1)
    IN  (MetricsCallOver /\ route.tag = "list" /\ n >= 2 /\ IsWalk(graph, route.nodes)) =>
            /\ pc[1] = "measured"
            /\ safe_metrics[1].num_edges = n - 1
            /\ safe_metrics[1].length =
                   SumOver([i \in pairs |-> graph[PairEdge(graph, route.nodes, i)].length], pairs)
            /\ safe_metrics[1].travel_time =
                   SumOver([i \in pairs |-> graph[PairEdge(graph, route.nodes, i)].travel_time],
                           pairs)
            /\ safe_metrics[1].cumulative_risk =
                   RSumSet([i \in pairs |->
                               RMul(graph[PairEdge(graph, route.nodes, i)].risk,
                                    RInt(graph[PairEdge(graph, route.nodes, i)].length))],
                           pairs)

\* A route of three nodes over edges of different lengths with positive risk has
\* been measured.
C11_Witness ==
    /\ pc[1] = "measured"
    /\ safe_route[1] = Route(<<1, 2, 3>>)
    /\ heap[0][<<1, 2, 0>>].length = MaxLen
    /\ heap[0][<<1, 2, 0>>].risk # RZero
    /\ heap[0][<<2, 3, 0>>].risk # RZero
    /\ safe_metrics[1].num_edges = 2

\* C12: calculate_route_metrics returns the all-zero record and does not raise
\* when the route is None, empty or a single node.
C12_ShortRouteZeroMetrics ==
    LET route == safe_route[1]
    IN  (MetricsCallOver /\ (route = None \/ Len(route.nodes) <= 1)) =>
            /\ pc[1] = "measured"
            /\ safe_metrics[1].length = 0
            /\ safe_metrics[1].cumulative_risk = RZero
            /\ safe_metrics[1].travel_time = 0
            /\ safe_metrics[1].num_edges = 0

\* None has been measured.
C12_Witness ==
    /\ pc[1] = "measured"
    /\ safe_route[1] = None
    /\ safe_metrics[1] = ZeroMetrics

CompareCallOver == pc[1] \in {"compared", "crashed"}

\* C13: for every pair of RouteMetrics the comparator returns
\* risk_reduction_pct = (fast risk - safe risk) / fast risk * 100, or 0 when the
\* fast risk is 0; absolute_risk_reduction = fast risk - safe risk;
\* length_difference_m = safe length - fast length; length_increase_pct =
\* length_difference_m / fast length * 100, or 0 when the fast length is 0; and it
\* never fails with a division by zero.
C13_ReductionFields ==
    LET sm == safe_metrics[1]
        fm == fast_metrics[1]
        red == reduction[1]
    IN  CompareCallOver =>
            /\ pc[1] = "compared"
            /\ IF fm.cumulative_risk = RZero
               THEN red.risk_reduction_pct = RZero
               ELSE RMul(red.risk_reduction_pct, fm.cumulative_risk) =
                        RMul(RInt(100), RSub(fm.cumulative_risk, sm.cumulative_risk))
            /\ RAdd(red.absolute_risk_reduction, sm.cumulative_risk) = fm.cumulative_risk
            /\ red.length_difference_m + fm.length = sm.length
            /\ IF fm.length = 0
               THEN red.length_increase_pct = RZero
               ELSE RMul(red.length_increase_pct, RInt(fm.length)) =
                        RInt(100 * (sm.length - fm.length))

\* Both divisions have been evaluated, for a safe route that is
\* longer and less risky than the fast one.
C13_Witness ==
    /\ pc[1] = "compared"
    /\ fast_metrics[1].cumulative_risk # RZero
    /\ fast_metrics[1].length > 0
    /\ safe_metrics[1].length > fast_metrics[1].length
    /\ RLt(safe_metrics[1].cumulative_risk, fast_metrics[1].cumulative_risk)
    /\ RLt(RZero, reduction[1].risk_reduction_pct)
    /\ RLt(RZero, reduction[1].length_increase_pct)

\* predict_next_4_hours has been called for request r and is over.
PredictCallOver(r) == pc[r] \in {"predicted", "crashed"}

\* The probabilities the predictor gives a tile at the instants it was asked about.
Probabilities(r) == [i \in 1..Horizon |-> ModelProbability(model, prediction_hours[r][i])]

IsMaximum(x, v) ==
    /\ \E i \in 1..Len(v) : v[i] = x
    /\ \A i \in 1..Len(v) : RLe(v[i], x)

\* C14: for every tile of the predictor's output the RiskMap value is the
\* maximum of the tile's probabilities over the horizon, both in
\* predict_next_4_hours and under the method 'max' of
\* aggregate_tile_predictions, and their arithmetic mean under 'mean'.
C14_MaxAndMean ==
    \A r \in Requests :
        model.kind = "ok" =>
            /\ (pc[r] = "predicted" \/ (pc[r] = "aggregated" /\ method[r] = "max")) =>
                   \A t \in model.tiles :
                       /\ t \in DOMAIN tile_risks[r]
                       /\ IsMaximum(tile_risks[r][t], Probabilities(r))
            /\ (pc[r] = "aggregated" /\ method[r] = "mean") =>
                   \A t \in model.tiles :
                       /\ t \in DOMAIN tile_risks[r]
                       /\ RMul(tile_risks[r][t], RInt(Horizon)) =
                              RSumSet(Probabilities(r), 1..Horizon)

\* The same horizon, with a peak after its first instant, has been aggregated
\* by mean and by predict_next_4_hours, with different values.
C14_Witness ==
    /\ model.kind = "ok"
    /\ pc[1] = "aggregated" /\ method[1] = "mean"
    /\ pc[2] = "predicted"
    /\ prediction_hours[1] = prediction_hours[2]
    /\ \E t \in model.tiles :
          /\ tile_risks[2][t] = ROne
          /\ tile_risks[2][t] # tile_risks[1][t]
          /\ ModelProbability(model, prediction_hours[2][1]) # ROne

\* C15: a tile of the tile set that is absent from the predictor's output is in
\* the RiskMap of predict_next_4_hours with risk exactly 0, and the call does
\* not raise.
C15_ColdStartZero ==
    \A r \in Requests :
        (PredictCallOver(r) /\ model.kind = "ok") =>
            /\ pc[r] = "predicted"
            /\ \A t \in Tiles \ model.tiles :
                  /\ t \in DOMAIN tile_risks[r]
                  /\ tile_risks[r][t] = RZero

\* A predictor that knows one tile with a positive risk and not the other has
\* been asked.
C15_Witness ==
    /\ model.kind = "ok"
    /\ pc[2] = "predicted"
    /\ model.tiles = {TileIds[1]}
    /\ tile_risks[2][TileIds[1]] # RZero
    /\ tile_risks[2][TileIds[2]] = RZero

\* C16: two calls of predict_next_4_hours whose reference instants fall in the
\* same clock hour ask the predictor about the same instants, the start of that
\* hour and the starts of the next three, and return the same RiskMap.
C16_SameHourSameQuery ==
    \A r1 \in Requests, r2 \in Requests :
        (/\ PredictCallOver(r1) /\ PredictCallOver(r2)
         /\ reference_time[r1] \div TicksPerHour = reference_time[r2] \div TicksPerHour) =>
            /\ prediction_hours[r1] = prediction_hours[r2]
            /\ prediction_hours[r1] =
                   [i \in 1..Horizon |->
                       ((reference_time[r1] \div TicksPerHour) + (i - 1)) * TicksPerHour]
            /\ tile_risks[r1] = tile_risks[r2]

\* Two calls at different instants of the same hour, one of them the instant of
\* the predictor's peak, have returned.
C16_Witness ==
    /\ model.kind = "ok" /\ model.tiles # {}
    /\ model.peak # model.base
    /\ pc[1] = "predicted" /\ pc[2] = "predicted"
    /\ reference_time[1] # reference_time[2]
    /\ reference_time[1] \div TicksPerHour = reference_time[2] \div TicksPerHour
    /\ model.spike = reference_time[2]

PredictorUnavailable == model.kind \in {"no_predict", "attribute_error", "error"}

\* C17 as stated: when the predictor is unavailable (no usable predict
\* operation, or calling it fails in any way) predict_next_4_hours still returns
\* a RiskMap with an entry for every tile, and no exception reaches the caller.
C17_UnavailableStillReturns ==
    \A r \in Requests :
        (PredictCallOver(r) /\ PredictorUnavailable) =>
            /\ pc[r] = "predicted"
            /\ DOMAIN tile_risks[r] = Tiles

\* C18 as stated: the RiskMap the fallback produces for an unavailable predictor
\* assigns risk 0 to every tile.
C18_FallbackAllZero ==
    \A r \in Requests :
        (pc[r] = "predicted" /\ PredictorUnavailable) =>
            \A t \in Tiles : tile_risks[r][t] = RZero

\* create_spatial_grid has been invoked for r and is over.
GridCallOver(r) == pc[r] \in {"built", "raised", "configuration_error"}

\* The tile identifiers of a grid and the polygon bound to an identifier.
GridIds(g) == {g[k].tile_id : k \in 1..Len(g)}
GridPolygons(g, id) == {g[k].geometry : k \in {n \in 1..Len(g) : g[n].tile_id = id}}

DegenerateBBox(b) == b.lat_min >= b.lat_max \/ b.lon_min >= b.lon_max

\* C20 as stated: create_spatial_grid fails with a ConfigurationError and
\* produces no tile set whenever the tile size is <= 0 or the bounding box is
\* degenerate (min >= max on the latitude or the longitude axis).
C20_BadParametersRejected ==
    \A r \in Requests :
        (GridCallOver(r) /\ (tile_size_m[r] <= 0 \/ DegenerateBBox(bbox[r]))) =>
            /\ pc[r] = "configuration_error"
            /\ grid[r] = NoGrid

\* A coordinate of request r lies far outside the network.
FarAway(r) == origin_point[r] = FarPoint \/ dest_point[r] = FarPoint

\* C21 as stated: when the origin or the destination lies far outside the
\* network's coverage, no route is returned for it and the request does not end
\* with route results.
C21_FarPointIsError ==
    \A r \in Requests :
        FarAway(r) =>
            /\ safe_route[r].tag # "list"
            /\ fast_route[r].tag # "list"
            /\ pc[r] # "done"

\* The geometry the mapper would have seen had no intersection failed.
WithoutFailures(geom) == [e \in DOMAIN geom |-> [geom[e] EXCEPT !.raises = {}]]

\* C22 as stated: when the intersection of an edge with a tile fails, the mapping
\* run still completes, that edge has no entry in the Overlay Map, and the
\* entries of all other edges are those of a run without failure.
C22_FailedEdgeSkipped ==
    (pc[0] \in {"mapped", "crashed"} /\ \E e \in DOMAIN edge_geom : edge_geom[e].raises # {}) =>
        /\ pc[0] = "mapped"
        /\ \A e \in DOMAIN edge_geom :
              IF edge_geom[e].raises # {}
              THEN e \notin DOMAIN tile_edge_mapping
              ELSE LET clean == create_tile_edge_mapping(WithoutFailures(edge_geom))
                   IN  /\ e \in DOMAIN tile_edge_mapping <=> e \in DOMAIN clean
                       /\ e \in DOMAIN clean => tile_edge_mapping[e] = clean[e]

InUnitInterval(x) == RLe(RZero, x) /\ RLe(x, ROne)

\* C23 as stated: for a predictor whose probabilities are all in [0,1], every
\* value of the RiskMap is in [0,1], whether it comes from predict_next_4_hours
\* (the fallback included) or from aggregate_tile_predictions under max, mean or
\* sum.
C23_RiskMapInUnitInterval ==
    \A r \in Requests :
        pc[r] \in {"predicted", "aggregated"} =>
            \A t \in DOMAIN tile_risks[r] : InUnitInterval(tile_risks[r][t])

\* The lattice cells of an invocation: columns and rows whose lower-left corner
\* xmin + i * size, ymin + j * size lies before the projected maximum corner.
LatticeCells(b, size) ==
    LET K == MaxCoord * MetersPerDegree
    IN  {c \in (0..K) \X (0..K) :
            /\ ToUTM(b.lon_min) + c[1] * size < ToUTM(b.lon_max)
            /\ ToUTM(b.lat_min) + c[2] * size < ToUTM(b.lat_max)}

\* The square of side size with lower-left corner (x, y), in the output CRS.
SquareAt(x, y, size) == <<ToWGS84(x), ToWGS84(y), ToWGS84(x + size), ToWGS84(y + size)>>

\* The unit square with lower-left corner (x, y), in metres, lies in the polygon p.
CoversUnit(p, x, y) ==
    /\ RLe(p[1], ToWGS84(x)) /\ RLe(ToWGS84(x + 1), p[3])
    /\ RLe(p[2], ToWGS84(y)) /\ RLe(ToWGS84(y + 1), p[4])

\* C24 as stated: the grid returned has exactly one tile per lattice cell (i, j),
\* identified as tile_{i}_{j}; identifiers are pairwise distinct; tile (i, j) is
\* the square with lower-left corner (xmin + i*size, ymin + j*size); and the
\* tiles cover the projected bounding box.
C24_GridIsLattice ==
    \A r \in Requests :
        pc[r] = "built" =>
            LET g == grid[r]
                b == bbox[r]
                size == tile_size_m[r]
                cells == LatticeCells(b, size)
            IN  /\ Len(g) = Cardinality(cells)
                /\ \A c \in cells :
                      \E k \in 1..Len(g) :
                          /\ g[k].tile_id = TileId(c[1], c[2])
                          /\ g[k].geometry =
                                SquareAt(ToUTM(b.lon_min) + c[1] * size,
                                         ToUTM(b.lat_min) + c[2] * size, size)
                /\ \A k1 \in 1..Len(g), k2 \in 1..Len(g) :
                      k1 # k2 => g[k1].tile_id # g[k2].tile_id
                /\ \A x \in ToUTM(b.lon_min)..(ToUTM(b.lon_max) - 1),
                      y \in ToUTM(b.lat_min)..(ToUTM(b.lat_max) - 1) :
                      \E k \in 1..Len(g) : CoversUnit(g[k].geometry, x, y)

\* C25 as stated: on a Network with zero edges create_tile_edge_mapping returns
\* an empty Overlay Map and apply_risk_weights returns the edgeless graph; neither
\* fails.
C25_EmptyNetworkNoFailure ==
    /\ (pc[0] \in {"mapped", "crashed"} /\ DOMAIN heap[0] = {}) =>
           (pc[0] = "mapped" /\ tile_edge_mapping = <<>>)
    /\ \A r \in Requests :
           (pc[r] \in {"returned", "crashed"} /\ DOMAIN heap[0] = {}) =>
               (pc[r] = "returned" /\ G_risk[r] = 0)

\* The outputs of the request's steps that exist so far.
HasRiskMap(r) == tile_risks[r] # NoRisks
IsWeighted(r) ==
    /\ G_risk[r] # NoRef
    /\ \A e \in DOMAIN heap[G_risk[r]] :
          heap[G_risk[r]][e].risk # NoAttr /\ heap[G_risk[r]][e].risk_weight # NoAttr
HasMetrics(r) == safe_metrics[r] # <<>> \/ fast_metrics[r] # <<>>
HasComparison(r) == reduction[r] # <<>>

\* C26: within one request each step's output exists only once the outputs of
\* the steps before it exist, in the order RiskMap, weighted graph, search by
\* risk_weight, search by length, metrics, comparison; metrics and comparison
\* exist only when both searches returned a route, and once a search has
\* returned no route the request is in its error outcome (or about to enter it)
\* with neither metrics nor comparison.
C26_StepsInOrder ==
    \A r \in Requests :
        /\ (G_risk[r] # NoRef) => HasRiskMap(r)
        /\ (safe_route[r] # NotYet) =>
               /\ IsWeighted(r)
               /\ safe_route[r] = find_safe_route(heap[G_risk[r]], origin_point[r],
                                                  dest_point[r], "risk_weight")
        /\ (fast_route[r] # NotYet) =>
               /\ safe_route[r] # NotYet
               /\ fast_route[r] = find_safe_route(heap[G_risk[r]], origin_point[r],
                                                  dest_point[r], "length")
        /\ HasMetrics(r) =>
               /\ safe_route[r].tag = "list" /\ fast_route[r].tag = "list"
               /\ safe_metrics[r] = calculate_route_metrics(heap[G_risk[r]], safe_route[r])
               /\ fast_metrics[r] = calculate_route_metrics(heap[G_risk[r]], fast_route[r])
        /\ HasComparison(r) =>
               /\ HasMetrics(r)
               /\ reduction[r] = calculate_risk_reduction(safe_metrics[r], fast_metrics[r])
        /\ (fast_route[r] # NotYet /\ (safe_route[r] = None \/ fast_route[r] = None)) =>
               /\ pc[r] \in {"fast_found", "error"}
               /\ ~HasMetrics(r) /\ ~HasComparison(r)
        /\ pc[r] = "error" => (safe_route[r] = None \/ fast_route[r] = None)
        /\ pc[r] = "done" => (HasMetrics(r) /\ HasComparison(r))

\* A request has gone through every step and its two routes differ.
C26_Witness ==
    /\ pc[1] = "done"
    /\ HasComparison(1)
    /\ safe_route[1] # fast_route[1]

\* C27 as stated: for a route returned under a weight selector, the total of
\* that weight over the edges calculate_route_metrics counts equals the path cost
\* the planner minimised (the cheapest parallel edge per node pair): the length
\* reported for the route by length is its cost under length, and length plus
\* cumulative_risk (the sum of length * (1 + risk)) reported for the route by
\* risk_weight is its cost under risk_weight.
C27_MetricsMatchPlannerCost ==
    \A r \in Requests :
        pc[r] = "done" =>
            /\ RInt(fast_metrics[r].length) =
                   WalkCost(heap[G_risk[r]], fast_route[r].nodes, "length")
            /\ RAdd(RInt(safe_metrics[r].length), safe_metrics[r].cumulative_risk) =
                   WalkCost(heap[G_risk[r]], safe_route[r].nodes, "risk_weight")

\* C28 as stated: the route by length is no longer than the route by
\* risk_weight and the route by risk_weight has no more cumulative risk than
\* the route by length, so the comparison's length_difference_m and
\* absolute_risk_reduction are >= 0.
C28_SafeNoRiskierFastNoLonger ==
    \A r \in Requests :
        pc[r] = "done" =>
            /\ fast_metrics[r].length <= safe_metrics[r].length
            /\ RLe(safe_metrics[r].cumulative_risk, fast_metrics[r].cumulative_risk)
            /\ reduction[r].length_difference_m >= 0
            /\ RLe(RZero, reduction[r].absolute_risk_reduction)

\* The precondition of C29: RiskMap values in [0,1] and, for every edge of the
\* Overlay Map, non-negative fractions that sum to 1.
UnitRiskMap(risks) == \A t \in DOMAIN risks : InUnitInterval(risks[t])
ProperOverlay(mapping) ==
    \A e \in DOMAIN mapping :
        /\ \A i \in 1..Len(mapping[e]) : RLe(RZero, mapping[e][i].fraction)
        /\ RSumSet(Fractions(mapping[e]), 1..Len(mapping[e])) = ROne

BoundedMetrics(m) ==
    /\ RLe(RZero, m.cumulative_risk)
    /\ RLe(m.cumulative_risk, RInt(m.length))

\* C29: with RiskMap values in [0,1] and non-negative fractions summing to 1,
\* after apply_risk_weights every edge has 0 <= risk <= 1 and
\* length <= risk_weight <= 2 * length, and the cumulative_risk reported for a
\* route is between 0 and the route's reported length.
C29_RiskBounds ==
    \A r \in Requests :
        (Weighted(r) /\ UnitRiskMap(tile_risks[r]) /\ ProperOverlay(tile_edge_mapping)) =>
            /\ \A e \in DOMAIN heap[G_risk[r]] :
                  LET a == heap[G_risk[r]][e]
                  IN  /\ InUnitInterval(a.risk)
                      /\ RLe(RInt(a.length), a.risk_weight)
                      /\ RLe(a.risk_weight, RInt(2 * a.length))
            /\ pc[r] = "done" =>
                  (BoundedMetrics(safe_metrics[r]) /\ BoundedMetrics(fast_metrics[r]))

\* A request is done on a network with an edge of risk strictly between 0 and 1
\* and positive length, and its safe route of two edges has a cumulative risk
\* strictly between 0 and its length.
C29_Witness ==
    /\ pc[1] = "done"
    /\ UnitRiskMap(tile_risks[1]) /\ ProperOverlay(tile_edge_mapping)
    /\ \E e \in DOMAIN heap[G_risk[1]] :
          LET a == heap[G_risk[1]][e]
          IN  a.length > 0 /\ RLt(RZero, a.risk) /\ RLt(a.risk, ROne)
    /\ safe_metrics[1].num_edges = 2
    /\ RLt(RZero, safe_metrics[1].cumulative_risk)
    /\ RLt(safe_metrics[1].cumulative_risk, RInt(safe_metrics[1].length))

\* C30: a call of apply_risk_weights changes nothing except risk and
\* risk_weight: the edge set (and with it the node set), every edge's length and
\* travel_time, the Overlay Map and the RiskMap are as before the call, and
\* every edge, those absent from the Overlay Map included, ends with both
\* attributes set.
C30_OnlyRiskAttributesChange ==
    [][\A r \in Requests :
          (pc[r] = "direct" /\ pc'[r] # "direct") =>
              /\ DOMAIN heap'[0] = DOMAIN heap[0]
              /\ {e[1] : e \in DOMAIN heap'[0]} \cup {e[2] : e \in DOMAIN heap'[0]}
                    = {e[1] : e \in DOMAIN heap[0]} \cup {e[2] : e \in DOMAIN heap[0]}
              /\ \A e \in DOMAIN heap[0] :
                    /\ heap'[0][e].length = heap[0][e].length
                    /\ heap'[0][e].travel_time = heap[0][e].travel_time
                    /\ heap'[0][e].risk # NoAttr
                    /\ heap'[0][e].risk_weight # NoAttr
              /\ tile_edge_mapping' = tile_edge_mapping
              /\ tile_risks' = tile_risks]_vars

\* The call has returned on a graph with an edge absent from the Overlay Map and
\* a mapped edge of positive risk, lengths and travel times in place.
C30_Witness ==
    /\ pc[1] = "returned"
    /\ \E e \in DOMAIN heap[0] :
          /\ e \notin DOMAIN tile_edge_mapping
          /\ heap[0][e].risk = RZero
          /\ heap[0][e].risk_weight = RInt(heap[0][e].length)
          /\ heap[0][e].length > 0
    /\ \E e \in DOMAIN tile_edge_mapping :
          RLt(RZero, heap[0][e].risk) /\ heap[0][e].travel_time = heap[0][e].length + 1

=============================================================================
